---- MODULE Spec2Model ----
(***************************************************************************)
(* EDU AI Lab backend: the request handlers of src/server.js (POST /ask,   *)
(* /plan, /upload) and of src/unnamed/part_000 (POST /summarize-text,      *)
(* /summarize-pdf, /generate-quiz, /flashcards, /study-planner, /mindmap,  *)
(* /motivation), one request at a time.  Handlers share no state, so one   *)
(* request's life is the whole state machine: the body parser or multer    *)
(* accepts the request, the handler runs to its first await, the reader or *)
(* the model call settles, and the handler runs on to its response.  Each  *)
(* action is one synchronous run of handler code between two awaits, with  *)
(* the catch and finally blocks that run in it.                            *)
(*                                                                         *)
(* Strings are sequences of characters; a chunk of letters without a dot   *)
(* or a blank ("pdf", "Docx") stands where only its letters' case matters. *)
(* Temperatures are in tenths (7 is 0.7).                                  *)
(***************************************************************************)
EXTENDS Integers, Sequences, FiniteSets, TLC

VARIABLES pc, req, fileExists, extracts, text, calls, ai, resps, unlinks,
          unlinkErr, raised

vars == <<pc, req, fileExists, extracts, text, calls, ai, resps, unlinks,
          unlinkErr, raised>>

\* ------------------------------------------------------------ bounds
MaxTextLen == 2
MaxNameLen == 3
MaxLangLen == 4

\* ------------------------------------------------------------ JS values
Undefined == [kind |-> "undefined", chars |-> <<>>]
Str(s) == [kind |-> "string", chars |-> s]
\* JS truthiness of a string-or-undefined value: !v is true of undefined and "".
Truthy(v) == v.kind = "string" /\ v.chars # <<>>

NoCount == [kind |-> "undefined", n |-> 0]
NaNCount == [kind |-> "nan", n |-> 0]
Num(n) == [kind |-> "number", n |-> n]

NoSubjects == [kind |-> "undefined", items |-> <<>>]
Arr(items) == [kind |-> "array", items |-> items]

SeqsUpTo(S, n) == UNION {[1..k -> S] : k \in 0..n}

IsSpace(c) == c \in {" ", "\n", "\t"}

RECURSIVE TrimStart(_)
TrimStart(s) ==
  IF s # <<>> /\ IsSpace(Head(s)) THEN TrimStart(Tail(s)) ELSE s

RECURSIVE TrimEnd(_)
TrimEnd(s) ==
  IF s # <<>> /\ IsSpace(s[Len(s)]) THEN TrimEnd(SubSeq(s, 1, Len(s) - 1)) ELSE s

\* String.prototype.trim
trim(s) == TrimEnd(TrimStart(s))

LowerChar(c) ==
  CASE c = "N" -> "n"
    [] c = "O" -> "o"
    [] c = "E" -> "e"
    [] c = "PDF" -> "pdf"
    [] c = "Docx" -> "docx"
    [] OTHER -> c

UpperChar(c) ==
  CASE c = "n" -> "N"
    [] c = "o" -> "O"
    [] c = "e" -> "E"
    [] c = "f" -> "F"
    [] OTHER -> c

\* String.prototype.toLowerCase
toLowerCase(s) == [i \in 1..Len(s) |-> LowerChar(s[i])]

\* /^none$/i.test(s): the whole input, each character compared after
\* canonicalisation to upper case.
TestNoneI(s) ==
  /\ Len(s) = 4
  /\ \A i \in 1..4 : UpperChar(s[i]) = UpperChar(<<"n", "o", "n", "e">>[i])

\* ------------------------------------------------------------ helpers
Separator == <<"\n", "\n", "-", "-", "-", "\n", "\n">>

\* server.js buildBilingualWrap(answer, targetLanguage); answer is a string,
\* targetLanguage a string or undefined.
buildBilingualWrap(answer, targetLanguage) ==
  IF ~Truthy(targetLanguage)
     \/ toLowerCase(targetLanguage.chars) = <<"n", "o", "n", "e">>
  THEN answer
  ELSE answer \o Separator \o <<"U+1F501", " ">> \o targetLanguage.chars
       \o <<" Translation:", "\n",
            "Please translate the entire answer above into ">>
       \o targetLanguage.chars
       \o <<", keeping structure, headings, lists and tone.">>

\* wrapBilingual with the sentinel compared case-sensitively.
wrapBilingualCaseSensitive(answer, language) ==
  IF ~Truthy(language) \/ language.chars = <<"n", "o", "n", "e">>
  THEN answer
  ELSE answer \o Separator \o <<"U+1F501", " ">> \o language.chars
       \o <<" Translation:", "\n",
            "Translate the entire answer above to ">>
       \o language.chars
       \o <<", preserving structure, headings, lists and tone.">>

\* part_000 wrapBilingual(text, language)
wrapBilingual(answer, language) ==
  IF ~Truthy(language) \/ TestNoneI(language.chars)
  THEN answer
  ELSE answer \o Separator \o <<"U+1F501", " ">> \o language.chars
       \o <<" Translation:", "\n",
            "Translate the entire answer above to ">>
       \o language.chars
       \o <<", preserving structure, headings, lists and tone.">>

\* The values a prompt template interpolates; the fixed template text is
\* named by builder.
Prompt(builder, n, content, subjects) ==
  [builder |-> builder, n |-> n, content |-> content, subjects |-> subjects]

buildLongSummaryPrompt(t, lang) == Prompt("summary", 0, t, <<lang>>)
buildQuizPrompt(t, count) == Prompt("quiz", count, t, <<>>)
buildFlashcardsPrompt(t, count) == Prompt("flashcards", count, t, <<>>)
buildMindmapPrompt(t) == Prompt("mindmap", 0, t, <<>>)
\* ${context || 'N/A'}
buildMotivationPrompt(context) ==
  Prompt("motivation", 0, IF Truthy(context) THEN context ELSE Str(<<"N/A">>), <<>>)

\* part_000's builders interpolate the same values as server.js's.
promptSummary(t, lang) == Prompt("summary", 0, t, <<lang>>)
promptQuiz(t, count) == Prompt("quiz", count, t, <<>>)
promptFlashcards(t, count) == Prompt("flashcards", count, t, <<>>)
promptMindmap(t) == Prompt("mindmap", 0, t, <<>>)
promptMotivation(context) ==
  Prompt("motivation", 0, IF Truthy(context) THEN context ELSE Str(<<"N/A">>), <<>>)

Min(a, b) == IF a < b THEN a ELSE b
Max(a, b) == IF a > b THEN a ELSE b

\* const { count = dflt } = req.body: the default replaces undefined only.
Defaulted(count, dflt) == IF count.kind = "undefined" THEN Num(dflt) ELSE count

\* +count || dflt: NaN and 0 are falsy.
Coerce(count, dflt) ==
  IF count.kind = "number" /\ count.n # 0 THEN count.n ELSE dflt

\* part_000 /generate-quiz: Math.max(1, Math.min(+count || 10, 50))
QuizCount(count) == Max(1, Min(Coerce(Defaulted(count, 10), 10), 50))

\* part_000 /flashcards: Math.max(1, Math.min(+count || 20, 100))
FlashcardsCount(count) == Max(1, Min(Coerce(Defaulted(count, 20), 20), 100))

\* path.extname over a name without path separators (multer keeps the base
\* name): the backward scan of Node's posix extname.  Positions are 0-based
\* as in the source; the result of the scan is <<startDot, preDotState>>.
RECURSIVE ExtScan(_, _, _, _)
ExtScan(s, i, startDot, preDotState) ==
  IF i < 0 THEN <<startDot, preDotState>>
  ELSE IF s[i + 1] = "."
       THEN IF startDot = -1
            THEN ExtScan(s, i - 1, i, preDotState)
            ELSE ExtScan(s, i - 1, startDot, 1)
       ELSE IF startDot # -1
            THEN ExtScan(s, i - 1, startDot, -1)
            ELSE ExtScan(s, i - 1, startDot, preDotState)

extname(s) ==
  LET r == ExtScan(s, Len(s) - 1, -1, 0)
      startDot == r[1]
      preDotState == r[2]
      end == IF s = <<>> THEN -1 ELSE Len(s)
  IN IF \/ startDot = -1
        \/ end = -1
        \/ preDotState = 0
        \/ (preDotState = 1 /\ startDot = end - 1 /\ startDot = 1)
     THEN <<>>
     ELSE SubSeq(s, startDot + 1, end)

\* s.split('.').pop(): what follows the last dot, the whole name without one.
RECURSIVE SplitPop(_)
SplitPop(s) ==
  IF s = <<>> THEN <<>>
  ELSE IF s[Len(s)] = "." THEN <<>>
  ELSE SplitPop(SubSeq(s, 1, Len(s) - 1)) \o <<s[Len(s)]>>

\* part_000 /summarize-pdf: (path.extname(originalname) || "").toLowerCase()
PdfExt(originalname) == toLowerCase(extname(originalname))

\* server.js /upload: (originalname.split('.').pop() || '').toLowerCase()
UploadExt(originalname) == toLowerCase(SplitPop(originalname))

\* ------------------------------------------------------------ requests
TextChars == {" ", "a"}
LangChars == {"n", "N", "o", "e", "f"}
NameChars == {".", "pdf", "PDF", "txt", "Docx", "exe"}

Strings(S, n) == {Str(s) : s \in SeqsUpTo(S, n)}

\* A body field holding text: absent, or a string.
Texts == {Undefined} \cup Strings(TextChars, MaxTextLen)
\* What the model's response.text() yields: nothing, or any string.
RawAnswers == {Undefined} \cup Strings(TextChars, MaxTextLen)
AllLangs == {Undefined} \cup Strings(LangChars, MaxLangLen)
SampleLangs == {Undefined, Str(<<"N", "o", "n", "e">>), Str(<<"f">>)}
\* multer's originalname: a non-empty base name.
AllNames == SeqsUpTo(NameChars, MaxNameLen) \ {<<>>}
SampleNames == {<<"exe", ".", "PDF">>, <<"exe", ".", "txt">>}
Modes == {"summary", "quiz", "flashcards", "mindmap", "motivation", "chat"}
Counts == {NoCount, NaNCount} \cup {Num(n) : n \in {-1, 0, 1, 3, 50, 51, 100, 101, 1000}}
SubjectLists == {NoSubjects, Arr(<<>>), Arr(<<"math">>), Arr(<<"math", "cs">>)}
ExamDates == {Undefined, Str(<<>>), Str(<<"2026-12-01">>)}
Hours == {NoCount, Num(3)}

NoReq ==
  [route |-> "", text |-> Undefined, mode |-> "chat", count |-> NoCount,
   language |-> Undefined, subjects |-> NoSubjects, examDate |-> Undefined,
   hoursPerDay |-> NoCount, hasFile |-> FALSE, originalname |-> <<>>,
   fileText |-> <<>>]

\* ------------------------------------------------------------ state
Init ==
  /\ pc = "idle"
  /\ req = NoReq
  /\ fileExists = FALSE
  /\ extracts = <<>>
  /\ text = <<>>
  /\ calls = <<>>
  /\ ai = <<>>
  /\ resps = <<>>
  /\ unlinks = 0
  /\ unlinkErr = FALSE
  /\ raised = "none"

\* express.json() or multer's upload.single('file') has parsed the request;
\* multer has stored the file part, if any, under uploads/.
Accept(r) ==
  /\ req' = r
  /\ fileExists' = r.hasFile
  /\ pc' = "start"
  /\ UNCHANGED <<extracts, text, calls, ai, resps, unlinks, unlinkErr, raised>>

\* A request arrives with fields from the given sets of languages L, original
\* names N, texts T, modes M, counts C, subject lists S and exam dates D.  The
\* text field is /ask's question, /motivation's context and the other routes'
\* text; fileText is the text the uploaded file holds.
AcceptAny(L, N, T, M, C, S, D) ==
  \/ \E t \in T, m \in M, c \in C, l \in L :
       Accept([NoReq EXCEPT !.route = "/ask", !.text = t, !.mode = m,
                            !.count = c, !.language = l])
  \/ \E r \in {"/plan", "/study-planner"}, s \in S, d \in D, h \in Hours, l \in L :
       Accept([NoReq EXCEPT !.route = r, !.subjects = s, !.examDate = d,
                            !.hoursPerDay = h, !.language = l])
  \/ \E r \in {"/upload", "/summarize-pdf"}, l \in L :
       Accept([NoReq EXCEPT !.route = r, !.language = l])
  \/ \E r \in {"/upload", "/summarize-pdf"}, n \in N, t \in T \ {Undefined}, l \in L :
       Accept([NoReq EXCEPT !.route = r, !.hasFile = TRUE, !.originalname = n,
                            !.fileText = t.chars, !.language = l])
  \/ \E r \in {"/summarize-text", "/mindmap", "/motivation"}, t \in T, l \in L :
       Accept([NoReq EXCEPT !.route = r, !.text = t, !.language = l])
  \/ \E r \in {"/generate-quiz", "/flashcards"}, t \in T, c \in C, l \in L :
       Accept([NoReq EXCEPT !.route = r, !.text = t, !.count = c, !.language = l])

Receive ==
  /\ pc = "idle"
  /\ AcceptAny(SampleLangs, AllNames, Texts, Modes, Counts, SubjectLists, ExamDates)

\* Every language up to MaxLangLen, the other fields from a few values.
ReceiveWrap ==
  /\ pc = "idle"
  /\ AcceptAny(AllLangs, SampleNames, {Str(<<"a">>)}, {"summary", "chat"},
               {NoCount}, {Arr(<<"math">>)}, {Str(<<"2026-12-01">>)})

\* ------------------------------------------------------------ handler steps
\* askGemini(prompt, temperature) up to its await of model.generateContent.
askGemini(prompt, temperature) ==
  /\ calls' = Append(calls, [prompt |-> prompt, temperature |-> temperature])
  /\ pc' = "asking"

\* askGemini's return value: (response.text() || '').trim()
AnswerOf(raw) == trim(IF Truthy(raw) THEN raw.chars ELSE <<>>)

\* res.status(status).json({error}) or res.json({[key]: payload})
json(status, key, error, payload) ==
  /\ resps' = Append(resps, [status |-> status, key |-> key, error |-> error,
                            payload |-> payload])
  /\ pc' = "done"

\* fs.unlinkSync(req.file.path) inside try {} catch {}: the file is removed,
\* or unlinkSync throws, the file stays and the exception is swallowed.
unlinkSync ==
  \E ok \in BOOLEAN :
    /\ unlinks' = unlinks + 1
    /\ fileExists' = (fileExists /\ ~ok)
    /\ unlinkErr' = ~ok

NoUnlink == UNCHANGED <<fileExists, unlinks, unlinkErr>>

\* FinallyUnlink with the unlink as the try block's last statement instead of
\* in finally: an early return or an exception skips it.
UnlinkAtEndOnly(exit) == IF exit = "end" THEN unlinkSync ELSE NoUnlink

\* FinallyUnlink with a second unlink in the catch block.
UnlinkInCatchToo(exit) ==
  IF exit = "catch"
  THEN /\ unlinks' = unlinks + 2
       /\ fileExists' = FALSE
       /\ unlinkErr' = FALSE
  ELSE unlinkSync

\* The finally block of the upload handlers, whatever way the try block was
\* left: by a return ("return"), through catch ("catch") or by its end ("end").
FinallyUnlink(exit) == unlinkSync

\* !text || !text.trim()
MissingText(t) == ~Truthy(t) \/ trim(t.chars) = <<>>

\* ------------------------------------------------------------ server.js
\* POST /ask, to the await of askGemini: no field is validated.
AskStart ==
  /\ pc = "start" /\ req.route = "/ask"
  /\ LET question == req.text
         prompt ==
           IF req.mode = "summary" THEN buildLongSummaryPrompt(question, "English")
           ELSE IF req.mode = "quiz" THEN buildQuizPrompt(question, 10)
           ELSE IF req.mode = "flashcards" THEN buildFlashcardsPrompt(question, 24)
           ELSE IF req.mode = "mindmap" THEN buildMindmapPrompt(question)
           ELSE IF req.mode = "motivation" THEN buildMotivationPrompt(question)
           ELSE Prompt("raw", 0, IF Truthy(question) THEN question ELSE Str(<<>>), <<>>)
     IN askGemini(prompt, 7)
  /\ UNCHANGED <<req, extracts, text, ai, resps, raised>>
  /\ NoUnlink

\* POST /ask, from the settled model call to the response.
AskSettled ==
  /\ pc = "asking" /\ req.route = "/ask"
  /\ \/ \E raw \in RawAnswers :
          /\ ai' = AnswerOf(raw)
          /\ json(200, "answer", "", buildBilingualWrap(AnswerOf(raw), req.language))
          /\ raised' = raised
     \/ /\ raised' = "model"
        /\ json(500, "", "ask_failed", <<>>)
        /\ ai' = ai
  /\ UNCHANGED <<req, extracts, text, calls>>
  /\ NoUnlink

\* POST /plan: subjects = [] and hoursPerDay = 2 by default, nothing validated.
\* subjects.join(', ') || 'N/A'
PlanStart ==
  /\ pc = "start" /\ req.route = "/plan"
  /\ LET subjects == req.subjects.items
         hoursPerDay == Defaulted(req.hoursPerDay, 2).n
         prompt == Prompt("plan", hoursPerDay, req.examDate,
                          IF subjects = <<>> THEN <<"N/A">> ELSE subjects)
     IN askGemini(prompt, 5)
  /\ UNCHANGED <<req, extracts, text, ai, resps, raised>>
  /\ NoUnlink

PlanSettled ==
  /\ pc = "asking" /\ req.route = "/plan"
  /\ \/ \E raw \in RawAnswers :
          /\ ai' = AnswerOf(raw)
          /\ json(200, "plan", "", buildBilingualWrap(AnswerOf(raw), req.language))
          /\ raised' = raised
     \/ /\ raised' = "model"
        /\ json(500, "", "plan_failed", <<>>)
        /\ ai' = ai
  /\ UNCHANGED <<req, extracts, text, calls>>
  /\ NoUnlink

\* POST /upload, to the await of the reader: the no_file return is before the
\* try block, the unsupported_type return inside it.
UploadStart ==
  /\ pc = "start" /\ req.route = "/upload"
  /\ IF ~req.hasFile
     THEN /\ json(400, "", "no_file", <<>>)
          /\ extracts' = extracts
          /\ NoUnlink
     ELSE LET ext == UploadExt(req.originalname)
          IN IF ext = <<"pdf">>
             THEN extracts' = Append(extracts, "readPdf") /\ pc' = "extracting"
                  /\ resps' = resps /\ NoUnlink
             ELSE IF ext = <<"docx">>
             THEN extracts' = Append(extracts, "readDocx") /\ pc' = "extracting"
                  /\ resps' = resps /\ NoUnlink
             ELSE IF ext = <<"txt">>
             THEN extracts' = Append(extracts, "readTxt") /\ pc' = "extracting"
                  /\ resps' = resps /\ NoUnlink
             ELSE /\ json(400, "", "unsupported_type", <<>>)
                  /\ extracts' = extracts
                  /\ FinallyUnlink("return")
  /\ UNCHANGED <<req, text, calls, ai, raised>>

\* POST /upload, from the settled reader: its text, or its exception.
UploadExtracted ==
  /\ pc = "extracting" /\ req.route = "/upload"
  /\ \/ /\ text' = req.fileText
        /\ IF trim(req.fileText) = <<>>
           THEN /\ json(400, "", "empty_file", <<>>)
                /\ calls' = calls
                /\ FinallyUnlink("return")
           ELSE /\ askGemini(buildLongSummaryPrompt(Str(req.fileText), "English"), 4)
                /\ resps' = resps
                /\ NoUnlink
        /\ raised' = raised
     \/ /\ raised' = "extract"
        /\ json(500, "", "upload_failed", <<>>)
        /\ FinallyUnlink("catch")
        /\ UNCHANGED <<text, calls>>
  /\ UNCHANGED <<req, extracts, ai>>

UploadSettled ==
  /\ pc = "asking" /\ req.route = "/upload"
  /\ \/ \E raw \in RawAnswers :
          /\ ai' = AnswerOf(raw)
          /\ json(200, "summary", "", buildBilingualWrap(AnswerOf(raw), req.language))
          /\ FinallyUnlink("end")
          /\ raised' = raised
     \/ /\ raised' = "model"
        /\ json(500, "", "upload_failed", <<>>)
        /\ FinallyUnlink("catch")
        /\ ai' = ai
  /\ UNCHANGED <<req, extracts, text, calls>>

\* ------------------------------------------------------------ part_000
\* POST /summarize-text
SummarizeTextStart ==
  /\ pc = "start" /\ req.route = "/summarize-text"
  /\ IF MissingText(req.text)
     THEN json(400, "", "missing_text", <<>>) /\ calls' = calls
     ELSE askGemini(promptSummary(req.text, "English"), 5) /\ resps' = resps
  /\ UNCHANGED <<req, extracts, text, ai, raised>>
  /\ NoUnlink

\* SummarizeTextSettled with an empty model answer rejected as missing_text.
SummarizeTextSettledRejectEmpty ==
  /\ pc = "asking" /\ req.route = "/summarize-text"
  /\ \/ \E raw \in RawAnswers :
          /\ ai' = AnswerOf(raw)
          /\ IF AnswerOf(raw) = <<>>
             THEN json(400, "", "missing_text", <<>>)
             ELSE json(200, "summary", "", wrapBilingual(AnswerOf(raw), req.language))
          /\ raised' = raised
     \/ /\ raised' = "model"
        /\ json(500, "", "summarize_text_failed", <<>>)
        /\ ai' = ai
  /\ UNCHANGED <<req, extracts, text, calls>>
  /\ NoUnlink

SummarizeTextSettled ==
  /\ pc = "asking" /\ req.route = "/summarize-text"
  /\ \/ \E raw \in RawAnswers :
          /\ ai' = AnswerOf(raw)
          /\ json(200, "summary", "", wrapBilingual(AnswerOf(raw), req.language))
          /\ raised' = raised
     \/ /\ raised' = "model"
        /\ json(500, "", "summarize_text_failed", <<>>)
        /\ ai' = ai
  /\ UNCHANGED <<req, extracts, text, calls>>
  /\ NoUnlink

\* POST /summarize-pdf, to the await of readPdf: only .pdf is accepted.
SummarizePdfStart ==
  /\ pc = "start" /\ req.route = "/summarize-pdf"
  /\ IF ~req.hasFile
     THEN /\ json(400, "", "no_file", <<>>)
          /\ extracts' = extracts
          /\ NoUnlink
     ELSE IF PdfExt(req.originalname) # <<".", "pdf">>
     THEN /\ json(400, "", "unsupported_type", <<>>)
          /\ extracts' = extracts
          /\ FinallyUnlink("return")
     ELSE /\ extracts' = Append(extracts, "readPdf")
          /\ pc' = "extracting"
          /\ resps' = resps
          /\ NoUnlink
  /\ UNCHANGED <<req, text, calls, ai, raised>>

\* readPdf calls require(), which a module loaded as ES module does not have
\* and a build to CommonJS does: the reader returns text or throws.
SummarizePdfExtracted ==
  /\ pc = "extracting" /\ req.route = "/summarize-pdf"
  /\ \/ /\ text' = req.fileText
        /\ IF trim(req.fileText) = <<>>
           THEN /\ json(400, "", "empty_pdf", <<>>)
                /\ calls' = calls
                /\ FinallyUnlink("return")
           ELSE /\ askGemini(promptSummary(Str(req.fileText), "English"), 4)
                /\ resps' = resps
                /\ NoUnlink
        /\ raised' = raised
     \/ /\ raised' = "extract"
        /\ json(500, "", "summarize_pdf_failed", <<>>)
        /\ FinallyUnlink("catch")
        /\ UNCHANGED <<text, calls>>
  /\ UNCHANGED <<req, extracts, ai>>

SummarizePdfSettled ==
  /\ pc = "asking" /\ req.route = "/summarize-pdf"
  /\ \/ \E raw \in RawAnswers :
          /\ ai' = AnswerOf(raw)
          /\ json(200, "summary", "", wrapBilingual(AnswerOf(raw), req.language))
          /\ FinallyUnlink("end")
          /\ raised' = raised
     \/ /\ raised' = "model"
        /\ json(500, "", "summarize_pdf_failed", <<>>)
        /\ FinallyUnlink("catch")
        /\ ai' = ai
  /\ UNCHANGED <<req, extracts, text, calls>>

\* POST /generate-quiz
GenerateQuizStart ==
  /\ pc = "start" /\ req.route = "/generate-quiz"
  /\ IF MissingText(req.text)
     THEN json(400, "", "missing_text", <<>>) /\ calls' = calls
     ELSE askGemini(promptQuiz(req.text, QuizCount(req.count)), 7) /\ resps' = resps
  /\ UNCHANGED <<req, extracts, text, ai, raised>>
  /\ NoUnlink

GenerateQuizSettled ==
  /\ pc = "asking" /\ req.route = "/generate-quiz"
  /\ \/ \E raw \in RawAnswers :
          /\ ai' = AnswerOf(raw)
          /\ json(200, "quiz", "", wrapBilingual(AnswerOf(raw), req.language))
          /\ raised' = raised
     \/ /\ raised' = "model"
        /\ json(500, "", "quiz_failed", <<>>)
        /\ ai' = ai
  /\ UNCHANGED <<req, extracts, text, calls>>
  /\ NoUnlink

\* POST /flashcards
FlashcardsStart ==
  /\ pc = "start" /\ req.route = "/flashcards"
  /\ IF MissingText(req.text)
     THEN json(400, "", "missing_text", <<>>) /\ calls' = calls
     ELSE askGemini(promptFlashcards(req.text, FlashcardsCount(req.count)), 6) /\ resps' = resps
  /\ UNCHANGED <<req, extracts, text, ai, raised>>
  /\ NoUnlink

FlashcardsSettled ==
  /\ pc = "asking" /\ req.route = "/flashcards"
  /\ \/ \E raw \in RawAnswers :
          /\ ai' = AnswerOf(raw)
          /\ json(200, "cards", "", wrapBilingual(AnswerOf(raw), req.language))
          /\ raised' = raised
     \/ /\ raised' = "model"
        /\ json(500, "", "flashcards_failed", <<>>)
        /\ ai' = ai
  /\ UNCHANGED <<req, extracts, text, calls>>
  /\ NoUnlink

\* POST /study-planner: !examDate || !subjects.length
StudyPlannerStart ==
  /\ pc = "start" /\ req.route = "/study-planner"
  /\ LET subjects == req.subjects.items
         hoursPerDay == Defaulted(req.hoursPerDay, 2).n
     IN IF ~Truthy(req.examDate) \/ Len(subjects) = 0
        THEN json(400, "", "missing_fields", <<>>) /\ calls' = calls
        ELSE askGemini(Prompt("plan", hoursPerDay, req.examDate, subjects), 5)
             /\ resps' = resps
  /\ UNCHANGED <<req, extracts, text, ai, raised>>
  /\ NoUnlink

StudyPlannerSettled ==
  /\ pc = "asking" /\ req.route = "/study-planner"
  /\ \/ \E raw \in RawAnswers :
          /\ ai' = AnswerOf(raw)
          /\ json(200, "plan", "", wrapBilingual(AnswerOf(raw), req.language))
          /\ raised' = raised
     \/ /\ raised' = "model"
        /\ json(500, "", "planner_failed", <<>>)
        /\ ai' = ai
  /\ UNCHANGED <<req, extracts, text, calls>>
  /\ NoUnlink

\* POST /mindmap
MindmapStart ==
  /\ pc = "start" /\ req.route = "/mindmap"
  /\ IF MissingText(req.text)
     THEN json(400, "", "missing_text", <<>>) /\ calls' = calls
     ELSE askGemini(promptMindmap(req.text), 5) /\ resps' = resps
  /\ UNCHANGED <<req, extracts, text, ai, raised>>
  /\ NoUnlink

\* MindmapSettled with the catch block copied from /summarize-text unedited.
MindmapSettledCopiedCatch ==
  /\ pc = "asking" /\ req.route = "/mindmap"
  /\ \/ \E raw \in RawAnswers :
          /\ ai' = AnswerOf(raw)
          /\ json(200, "mermaid", "", wrapBilingual(AnswerOf(raw), req.language))
          /\ raised' = raised
     \/ /\ raised' = "model"
        /\ json(500, "", "summarize_text_failed", <<>>)
        /\ ai' = ai
  /\ UNCHANGED <<req, extracts, text, calls>>
  /\ NoUnlink

MindmapSettled ==
  /\ pc = "asking" /\ req.route = "/mindmap"
  /\ \/ \E raw \in RawAnswers :
          /\ ai' = AnswerOf(raw)
          /\ json(200, "mermaid", "", wrapBilingual(AnswerOf(raw), req.language))
          /\ raised' = raised
     \/ /\ raised' = "model"
        /\ json(500, "", "mindmap_failed", <<>>)
        /\ ai' = ai
  /\ UNCHANGED <<req, extracts, text, calls>>
  /\ NoUnlink

\* POST /motivation: context is optional, nothing validated.
MotivationStart ==
  /\ pc = "start" /\ req.route = "/motivation"
  /\ askGemini(promptMotivation(req.text), 8)
  /\ UNCHANGED <<req, extracts, text, ai, resps, raised>>
  /\ NoUnlink

MotivationSettled ==
  /\ pc = "asking" /\ req.route = "/motivation"
  /\ \/ \E raw \in RawAnswers :
          /\ ai' = AnswerOf(raw)
          /\ json(200, "message", "", wrapBilingual(AnswerOf(raw), req.language))
          /\ raised' = raised
     \/ /\ raised' = "model"
        /\ json(500, "", "motivation_failed", <<>>)
        /\ ai' = ai
  /\ UNCHANGED <<req, extracts, text, calls>>
  /\ NoUnlink

\* ------------------------------------------------------------ specification
Handlers ==
  \/ AskStart \/ AskSettled
  \/ PlanStart \/ PlanSettled
  \/ UploadStart \/ UploadExtracted \/ UploadSettled
  \/ SummarizeTextStart \/ SummarizeTextSettled
  \/ SummarizePdfStart \/ SummarizePdfExtracted \/ SummarizePdfSettled
  \/ GenerateQuizStart \/ GenerateQuizSettled
  \/ FlashcardsStart \/ FlashcardsSettled
  \/ StudyPlannerStart \/ StudyPlannerSettled
  \/ MindmapStart \/ MindmapSettled
  \/ MotivationStart \/ MotivationSettled

Next == Receive \/ Handlers

Spec == Init /\ [][Next]_vars

NextWrap == ReceiveWrap \/ Handlers

SpecWrap == Init /\ [][NextWrap]_vars

\* ------------------------------------------------------------ properties
UploadRoutes == {"/upload", "/summarize-pdf"}
Sent == Len(resps) > 0
Stored == req.route \in UploadRoutes /\ req.hasFile

\* C1: for every upload request whose file multer stored, the handler has
\* unlinked the temp file exactly once when the request is over, whatever the
\* exit path (success, unsupported type, empty text, reader exception, model
\* exception); it never unlinks twice, and never unlinks without a file.
C1_UnlinkExactlyOnce ==
  /\ unlinks <= 1
  /\ (pc = "done" /\ Stored) => unlinks = 1
  /\ ~Stored => unlinks = 0

C1_Witness ==
  /\ pc = "done" /\ req.route = "/summarize-pdf" /\ req.hasFile
  /\ raised = "extract" /\ unlinks = 1

\* C2: a request answered with HTTP 400 has never reached the model client;
\* an upload request without a file gets 400 no_file and no model call.
C2_NoCallBefore400 ==
  /\ \A i \in 1..Len(resps) : resps[i].status = 400 => calls = <<>>
  /\ (pc = "done" /\ req.route \in UploadRoutes /\ ~req.hasFile) =>
       /\ resps = <<[status |-> 400, key |-> "", error |-> "no_file", payload |-> <<>>]>>
       /\ calls = <<>>

C2_Witness ==
  /\ pc = "done" /\ req.route = "/upload" /\ req.hasFile
  /\ extracts = <<"readTxt">>
  /\ resps[1].status = 400 /\ resps[1].error = "empty_file"
  /\ calls = <<>>

ContentBuilders == {"summary", "quiz", "flashcards", "mindmap"}

\* C3: the model client is invoked with a summary, quiz, flashcards or mindmap
\* prompt only if the prompt's source content is non-empty after trimming.
C3_ContentNeverBlank ==
  \A i \in 1..Len(calls) :
    calls[i].prompt.builder \in ContentBuilders =>
      /\ Truthy(calls[i].prompt.content)
      /\ trim(calls[i].prompt.content.chars) # <<>>

\* The count the claim requires for a caller-supplied count: the default when
\* absent, else the count clamped to [1, hi].
ClampedCount(count, dflt, hi) ==
  IF count.kind = "undefined" THEN dflt ELSE Max(1, Min(count.n, hi))

\* C4: the N interpolated into a quiz prompt is the caller's count clamped to
\* [1, 50] (10 when absent), into a flashcards prompt the count clamped to
\* [1, 100] (20 when absent), on every route serving the feature.
C4_CountClamped ==
  \A i \in 1..Len(calls) :
    req.count.kind \in {"undefined", "number"} =>
      /\ calls[i].prompt.builder = "quiz" =>
           calls[i].prompt.n = ClampedCount(req.count, 10, 50)
      /\ calls[i].prompt.builder = "flashcards" =>
           calls[i].prompt.n = ClampedCount(req.count, 20, 100)

\* C5: a study-plan request (/study-planner or /plan) whose subjects are empty
\* or absent never reaches the model and is answered 400 missing_fields.
C5_SubjectsRequired ==
  (req.route \in {"/study-planner", "/plan"} /\ req.subjects.items = <<>>) =>
    /\ calls = <<>>
    /\ pc \in {"done", "asking"} =>
         /\ Len(resps) = 1
         /\ resps[1].status = 400 /\ resps[1].error = "missing_fields"

\* The extension tag of a name as the claim reads it: what follows the last
\* dot, lower-cased; a name without a dot has none.
HasDot(name) == \E i \in 1..Len(name) : name[i] = "."
ExtensionTag(name) == IF HasDot(name) THEN toLowerCase(SplitPop(name)) ELSE <<>>
ReaderFor(tag) ==
  IF tag = <<"pdf">> THEN "readPdf" ELSE IF tag = <<"docx">> THEN "readDocx" ELSE "readTxt"
\* /upload reads the three types, /summarize-pdf only PDF.
Accepted(route) ==
  IF route = "/upload" THEN {<<"txt">>, <<"docx">>, <<"pdf">>} ELSE {<<"pdf">>}

\* C6: an upload whose name's extension tag is outside {txt, docx, pdf} (no
\* dot, several dots, any case) is never extracted nor sent to the model, is
\* answered 400 unsupported_type and its temp file is unlinked; an upload whose
\* tag the handler reads is extracted by the matching reader.
C6_DispatchOnExtension ==
  (Stored /\ pc # "start") =>
    LET tag == ExtensionTag(req.originalname)
    IN /\ tag \notin {<<"txt">>, <<"docx">>, <<"pdf">>} =>
            /\ extracts = <<>> /\ calls = <<>>
            /\ resps = <<[status |-> 400, key |-> "", error |-> "unsupported_type",
                          payload |-> <<>>]>>
            /\ unlinks = 1
       /\ tag \in Accepted(req.route) => extracts = <<ReaderFor(tag)>>

\* "none" in any letter case
IsNone(s) ==
  /\ Len(s) = 4
  /\ s[1] \in {"n", "N"} /\ s[2] \in {"o", "O"}
  /\ s[3] \in {"n", "N"} /\ s[4] \in {"e", "E"}

Contains(s, sub, from) ==
  \E i \in from..(Len(s) - Len(sub) + 1) : SubSeq(s, i, i + Len(sub) - 1) = sub

\* C7: the success payload is the trimmed model answer itself exactly when the
\* language is absent, empty or "none" in any letter case; for any other
\* language it is the answer, then the separator, then a directive block that
\* contains the language name.
C7_WrapIdentityOnNone ==
  (pc = "done" /\ resps[1].status = 200) =>
    LET L == req.language
        p == resps[1].payload
    IN IF ~Truthy(L) \/ IsNone(L.chars)
       THEN p = ai
       ELSE /\ p # ai
            /\ SubSeq(p, 1, Len(ai) + Len(Separator)) = ai \o Separator
            /\ Contains(p, L.chars, Len(ai) + Len(Separator) + 1)

C7_Witness ==
  /\ pc = "done" /\ resps[1].status = 200
  /\ req.route = "/flashcards"
  /\ req.language = Str(<<"N", "o", "N", "e">>)
  /\ ai # <<>> /\ resps[1].payload = ai

FailTag(route) ==
  CASE route = "/ask" -> "ask_failed"
    [] route = "/plan" -> "plan_failed"
    [] route = "/upload" -> "upload_failed"
    [] route = "/summarize-text" -> "summarize_text_failed"
    [] route = "/summarize-pdf" -> "summarize_pdf_failed"
    [] route = "/generate-quiz" -> "quiz_failed"
    [] route = "/flashcards" -> "flashcards_failed"
    [] route = "/study-planner" -> "planner_failed"
    [] route = "/mindmap" -> "mindmap_failed"
    [] route = "/motivation" -> "motivation_failed"
    [] OTHER -> ""

\* C8: when a reader or the model call raised, the request has exactly one
\* response, it is a 500 with the route's own *_failed tag, and no success
\* body was sent; no request ever has two responses.
C8_ExceptionGives500 ==
  /\ Len(resps) <= 1
  /\ raised # "none" =>
       /\ pc = "done"
       /\ Len(resps) = 1
       /\ resps[1].status = 500
       /\ resps[1].error = FailTag(req.route)
       /\ resps[1].key = "" /\ resps[1].payload = <<>>

C8_Witness ==
  /\ pc = "done" /\ raised = "model" /\ req.route = "/mindmap"
  /\ resps[1].error = "mindmap_failed"

\* C9 as stated: whenever an upload request's response has been sent, its temp
\* file is absent from the uploads directory.
C9_AbsentOnceSent == (req.route \in UploadRoutes /\ Sent) => ~fileExists

\* C9 as amended: once the handler run that sent the response of an upload
\* with a stored file is over, the unlink has been attempted exactly once and
\* the file is absent unless that unlink failed; a failed unlink leaves the
\* one response as it was chosen (no second response, no 500 in place of a
\* 200 or 400).
C9_UnlinkAttemptedOnceSent ==
  (Stored /\ Sent) =>
    /\ unlinks = 1
    /\ fileExists => unlinkErr
    /\ Len(resps) = 1
    /\ (unlinkErr /\ raised = "none") => resps[1].status \in {200, 400}
    /\ (unlinkErr /\ raised # "none") => resps[1].status = 500

C9_Witness ==
  /\ pc = "done" /\ req.route = "/upload" /\ req.hasFile
  /\ unlinkErr /\ fileExists /\ unlinks = 1
  /\ resps[1].status = 200

\* The temperature each feature's own route passes, in tenths.
DedicatedTemperature(builder) ==
  CASE builder = "quiz" -> 7
    [] builder = "flashcards" -> 6
    [] builder = "mindmap" -> 5
    [] builder = "motivation" -> 8
    [] builder = "plan" -> 5
    [] OTHER -> 7

\* C10: every model invocation for a mode uses that mode's one temperature on
\* every route serving it; summaries are in the band 0.4 to 0.5, motivation in
\* the band 0.7 to 0.8.
C10_TemperaturePerMode ==
  \A i \in 1..Len(calls) :
    LET b == calls[i].prompt.builder
        t == calls[i].temperature
    IN /\ b = "summary" => t \in 4..5
       /\ b = "motivation" => t \in 7..8
       /\ b \notin {"summary", "raw"} => t = DedicatedTemperature(b)

====
